---- MODULE Spec2Model ----
(***************************************************************************)
(* Model of the utility-VM creation pipeline (internal/uvm/create_wcow.go) *)
(* and of the network-namespace provisioning (internal/hcsoci/network.go). *)
(*                                                                         *)
(* CreateWCOW is one sequential function; it is modelled as a program      *)
(* counter `pc` walking through its statements, one action per statement   *)
(* group.  Every external call (file system, host compute service, network *)
(* control plane, hypervisor socket) may succeed or fail.  A `return` with *)
(* a non-nil error runs the deferred uvm.Close() in the same step.         *)
(***************************************************************************)
EXTENDS Integers, Sequences, FiniteSets, TLC

\* ------------------------------------------------------------------ bounds
MaxLayers == 2          \* read-only layer folders before the scratch folder
MaxResources == 2       \* cloneable resources recorded on a template
MaxEndpoints == 2       \* endpoints of a container / of a namespace
MaxNetNSCalls == 2      \* consecutive createNetworkNamespace calls
MaxHostProcs == 2       \* logical processors of the host
MaxProcRequest == 3     \* opts.ProcessorCount
MaxCalls == 2           \* consecutive CreateWCOW calls
MaxMounts == 2          \* mapped directories / mapped pipes of a container
MaxCloses == 2          \* Close invocations on one handle

\* ------------------------------------------------------------- basic values
NoErr == ""
EmptyMap == [x \in {} |-> x]
Range(s) == {s[i] : i \in DOMAIN s}

\* filepath.Join(folder, name): paths are sequences of components
Join(folder, name) == folder \o <<name>>

ScratchDir == <<"scratchDir">>
LayerDir(i) == <<"layer", ToString(i)>>
SandboxVhdx == "sandbox.vhdx"

\* LayerFolders: read-only layers followed by the scratch folder (or empty,
\* which option validation rejects)
LayerLists ==
    {<<>>} \cup {[i \in 1..(n + 1) |-> IF i <= n THEN LayerDir(i) ELSE ScratchDir] :
                    n \in 0..MaxLayers}

\* kinds of cloneable resources recorded on a template
ResourceKinds == {"scsi", "vsmb"}
ResourceLists == UNION {[1..n -> ResourceKinds] : n \in 0..MaxResources}

TemplateID == "templateVM"
\* opts.TemplateConfig: <<>> is the nil pointer, <<cfg>> a config
TemplateConfigs ==
    {<<>>} \cup {<<[UVMID |-> TemplateID, Resources |-> rs]>> : rs \in ResourceLists}

\* document keys are leaf paths of the JSON document
KeyGuestConnection == <<"VirtualMachine", "GuestConnection">>
KeyRestoreTemplate == <<"VirtualMachine", "RestoreState", "TemplateSystemId">>
KeyShares == <<"VirtualMachine", "Devices", "VirtualSmb", "Shares">>
KeyOwner == <<"Owner">>
KeyProcessorCount == <<"VirtualMachine", "ComputeTopology", "Processor", "Count">>
\* Scsi is map[string]Scsi and Attachments map[string]Attachment: the keys are
\* the decimal strings of the controller and slot numbers
KeyScsiPath(c, s) ==
    <<"VirtualMachine", "Devices", "Scsi", ToString(c), "Attachments", ToString(s), "Path">>
KeyScsiType(c, s) ==
    <<"VirtualMachine", "Devices", "Scsi", ToString(c), "Attachments", ToString(s), "Type">>
KeyExtra == <<"ExtraTopLevel">>

IsScsiPathKey(k) == Len(k) = 7 /\ k[3] = "Scsi" /\ k[7] = "Path"
\* the (controller, slot) pairs for which document d has an attachment
ScsiAttachments(d) == {<<k[4], k[6]>> : k \in {kk \in DOMAIN d : IsScsiPathKey(kk)}}

\* opts.AdditionHCSDocumentJSON: raw text that parses to a map of leaf paths,
\* or does not parse
Fragments ==
    { [valid |-> FALSE, json |-> EmptyMap],
      [valid |-> TRUE, json |-> EmptyMap],
      [valid |-> TRUE, json |-> (KeyExtra :> <<"x">>)],
      [valid |-> TRUE, json |-> (KeyScsiPath(0, 0) :> <<"other", "disk.vhdx">>)] }

OptionSet ==
    [ ID : {"", "vm1"},
      Owner : {"owner"},
      LayerFolders : LayerLists,
      IsClone : BOOLEAN,
      TemplateConfig : TemplateConfigs,
      ExternalGuestConnection : BOOLEAN,
      ProcessorCount : {MaxHostProcs},
      AdditionHCSDocumentJSON : Fragments ]

\* the file system states a call can start in: nothing, the scratch folder,
\* or the scratch folder holding a scratch disk
InitialFileSystems ==
    { {}, {ScratchDir}, {ScratchDir, Join(ScratchDir, SandboxVhdx)} }

VARIABLES
    opts,           \* *OptionsWCOW of the call
    pc,             \* position inside CreateWCOW
    uvm,            \* the *UtilityVM under construction
    doc,            \* the *hcsschema.ComputeSystem under construction
    fullDoc,        \* result of mergemaps.MergeJSON
    uvmFolder,      \* result of LocateUVMFolder
    scratchFolder,  \* result of getScratchFolder
    fs,             \* paths that exist on the host file system
    fsLog,          \* file-system creations performed, in order
    hcs,            \* documents submitted to the host compute service
    listeners,      \* hvsock listeners opened (their addresses)
    replayLog,      \* Clone calls made on cloneable resources
    cloneIdx,       \* index of the next resource of the range loop
    closeCalls,     \* number of uvm.Close() invocations
    ret,            \* what CreateWCOW returned
    trace,          \* names of the steps performed so far
    hostProcs,      \* logical processor count hostProcessorInfo reports
    callNo,         \* number of the current CreateWCOW call
    history,        \* the CreateWCOW calls that have returned, in order
    \* --- createNetworkNamespace (one caller, consecutive calls)
    coi,            \* coi.Spec.Windows.Network.EndpointList of the call
    resources,      \* the caller's *Resources record
    nsPc,           \* position inside createNetworkNamespace
    netID,          \* local netID
    endpoints,      \* local endpoints slice
    bindIdx,        \* index of the next endpoint of the range loop
    hnsNamespaces,  \* control plane: namespace id -> endpoint ids bound to it
    bindLog,        \* AddNamespaceEndpoint calls of the current call
    nsRet,          \* what createNetworkNamespace returned
    nsCalls,        \* calls started so far, successful calls so far
    \* --- SetupNetworkNamespace (concurrent callers on one VM handle)
    sPc,            \* caller -> position inside SetupNetworkNamespace
    sIds,           \* caller -> endpoint ids fetched from the control plane
    sEndpoints,     \* caller -> endpoint descriptors resolved so far
    sErr,           \* caller -> the named result err
    sRet,           \* caller -> what SetupNetworkNamespace returned
    hnsEndpoints,   \* control plane: namespace id -> its endpoint ids, in order
    vmNamespaces,   \* hostingSystem's namespace map: id -> attached NICs
    nsState,        \* namespace id -> attachment state inside the VM
    vmLog,          \* AddNetNS / AddEndpointsToNS / RemoveNetNS calls made on the VM
    \* --- addMountsToClone
    mounts,         \* the *mountsConfig of the call
    mPc,            \* position inside addMountsToClone
    mIdx,           \* index of the next element of the running range loop
    modifyLog,      \* c.Modify requests issued, in order
    attached,       \* the container's mounts: settings the container accepted
    mRet            \* what addMountsToClone returned

callVars == <<hostProcs, callNo, history>>
createVars == <<opts, pc, uvm, doc, fullDoc, uvmFolder, scratchFolder, fs, fsLog, hcs,
                listeners, replayLog, cloneIdx, closeCalls, ret, trace, callVars>>
netnsVars == <<coi, resources, nsPc, netID, endpoints, bindIdx, hnsNamespaces, bindLog,
               nsRet, nsCalls>>
setupVars == <<sPc, sIds, sEndpoints, sErr, sRet, hnsEndpoints, vmNamespaces, nsState,
               vmLog>>
mountVars == <<mounts, mPc, mIdx, modifyLog, attached, mRet>>
vars == <<createVars, netnsVars, setupVars, mountVars>>

\* ------------------------------------------------------- the UtilityVM handle
\* A nil map and an empty map read alike in Go, so maps start as EmptyMap.
\* gcListener and hcsSystem are 0 for nil, else the index of the listener in
\* `listeners` / of the compute system in `hcs`.
NilUVM ==
    [ constructed |-> FALSE, id |-> "", owner |-> "",
      scsiLocations |-> EmptyMap, vsmbDirShares |-> {}, namespaces |-> EmptyMap,
      isClone |-> FALSE, gcListener |-> 0, hcsSystem |-> 0, runtimeID |-> <<>>,
      processorCount |-> 0, closed |-> FALSE, faulted |-> FALSE ]

\* uvm := &UtilityVM{...}
NewUVM(o) == [NilUVM EXCEPT !.constructed = TRUE, !.id = o.ID, !.owner = o.Owner]

\* variant: the compute system is released without a nil test
CloseUnguarded(u) ==
    [u EXCEPT !.gcListener = 0, !.hcsSystem = 0, !.closed = TRUE,
              !.faulted = @ \/ u.hcsSystem = 0]

\* uvm.Close(): releases whatever the handle holds; every field is nil-safe
Close(u) == [u EXCEPT !.gcListener = 0, !.hcsSystem = 0, !.closed = TRUE]

\* hns.CLONING_DEFAULT_NETWORK_NAMESPACE_ID
CLONING_DEFAULT_NETWORK_NAMESPACE_ID == "cloning-default-netns"
\* &namespaceInfo{nics: make(map[string]*nicInfo)}
EmptyNamespaceInfo == [nics |-> EmptyMap]

\* gcs.WindowsGcsHvsockServiceID
WindowsGcsHvsockServiceID == "acef5661-84a1-4e44-856b-6245e69f4620"

\* the state of the CreateWCOW variables before a call, but for its inputs
CreateFresh ==
    /\ uvm = NilUVM
    /\ doc = EmptyMap
    /\ fullDoc = EmptyMap
    /\ uvmFolder = <<>>
    /\ scratchFolder = <<>>
    /\ fsLog = <<>>
    /\ hcs = <<>>
    /\ listeners = <<>>
    /\ replayLog = <<>>
    /\ cloneIdx = 1
    /\ closeCalls = 0
    /\ ret = [returned |-> FALSE, handle |-> FALSE, err |-> NoErr]
    /\ trace = <<>>
    /\ callNo = 1
    /\ history = <<>>

InitCreate ==
    /\ opts \in OptionSet
    /\ fs \in InitialFileSystems
    /\ hostProcs = MaxHostProcs
    /\ pc = "start"
    /\ CreateFresh

\* no CreateWCOW call is made
IdleCreate ==
    /\ opts = [ ID |-> "vm1", Owner |-> "owner", LayerFolders |-> <<>>, IsClone |-> FALSE,
                TemplateConfig |-> <<>>, ExternalGuestConnection |-> FALSE,
                ProcessorCount |-> MaxHostProcs,
                AdditionHCSDocumentJSON |-> [valid |-> TRUE, json |-> EmptyMap] ]
    /\ fs = {}
    /\ hostProcs = MaxHostProcs
    /\ pc = "idle"
    /\ CreateFresh

\* ------------------------------------------------------------ return paths
\* variant: the deferred check misses the error of the scratch-disk step (a
\* shadowed err)
DeferredCloseRunsShadowed(e) == e \notin {NoErr, "createScratch"}

\* defer func() { if err != nil { uvm.Close() } }()
DeferredCloseRuns(e) == e # NoErr

\* `return h, e` after the defer is registered: the deferred function sees the
\* named result err and closes the handle when it is non-nil
Return(u, h, e) ==
    /\ uvm' = (IF DeferredCloseRuns(e) THEN Close(u) ELSE u)
    /\ closeCalls' = closeCalls + (IF DeferredCloseRuns(e) THEN 1 ELSE 0)
    /\ ret' = [returned |-> TRUE, handle |-> h, err |-> e]
    /\ pc' = "done"

ReturnErr(u, e) == Return(u, FALSE, e)

Step(name) == trace' = Append(trace, name)

\* os.Stat(path): nil when the path exists, an IsNotExist error when it does
\* not, or some other error (access denied, ...) in either case
StatResults(files, path) ==
    (IF path \in files THEN {"ok"} ELSE {"notexist"}) \cup {"othererr"}

\* variant: any Stat error counts as "does not exist"
IsNotExistAnyError(st) == st # "ok"

\* os.IsNotExist(err)
IsNotExist(st) == st = "notexist"

\* variant: the document is submitted before the scratch disk or the clone
\* replay, and before the merge
PcAfterSubmitEarly(step) ==
    CASE step = "construct" -> "verify"
      [] step = "verify" -> "locate"
      [] step = "locate" -> "scratchFolder"
      [] step = "scratchFolder" -> "prepare"
      [] step = "prepare" -> "create"
      [] step = "create" -> "branch"
      [] step = "branch" -> "merge"
      [] step = "merge" -> "listen"

\* the statement CreateWCOW goes on with after a step that did not return:
\* verifyOptions, LocateUVMFolder, getScratchFolder, prepareConfigDoc, the
\* IsClone branches, MergeJSON, uvm.create, the listener
PcAfter(step) ==
    CASE step = "construct" -> "verify"
      [] step = "verify" -> "locate"
      [] step = "locate" -> "scratchFolder"
      [] step = "scratchFolder" -> "prepare"
      [] step = "prepare" -> "branch"
      [] step = "branch" -> "merge"
      [] step = "merge" -> "create"
      [] step = "create" -> "listen"

\* ------------------------------------------------------------- CreateWCOW
\* if opts.ID == "" { g, err := guid.NewV4(); ... }  then  uvm := &UtilityVM{...}
\* and the registration of the deferred Close
GenerateID ==
    /\ UNCHANGED <<netnsVars, setupVars, mountVars, callVars>>
    /\ pc = "start"
    /\ Step("construct")
    /\ \/ /\ opts.ID = ""
          /\ ret' = [returned |-> TRUE, handle |-> FALSE, err |-> "guid"]
          /\ pc' = "done"
          /\ UNCHANGED <<opts, uvm, closeCalls>>
       \/ /\ opts' = (IF opts.ID = "" THEN [opts EXCEPT !.ID = "generated-guid"] ELSE opts)
          /\ uvm' = NewUVM(opts')
          /\ pc' = PcAfter("construct")
          /\ UNCHANGED <<ret, closeCalls>>
    /\ UNCHANGED <<doc, fullDoc, uvmFolder, scratchFolder, fs, fsLog, hcs, listeners,
                   replayLog, cloneIdx>>

\* verifyOptions(ctx, opts): layer folders are required, and a clone needs a
\* template config
OptionsValid(o) ==
    /\ Len(o.LayerFolders) > 0
    /\ o.IsClone => o.TemplateConfig # <<>>

\* variant: only a missing layer list stops the call
VerifyFailedLayersOnly(o) == Len(o.LayerFolders) = 0

\* if err = verifyOptions(ctx, opts); err != nil { return nil, ... }
VerifyFailed(o) == ~OptionsValid(o)

VerifyOptions ==
    /\ UNCHANGED <<netnsVars, setupVars, mountVars, callVars>>
    /\ pc = "verify"
    /\ Step("verify")
    /\ IF ~VerifyFailed(opts)
          THEN pc' = PcAfter("verify") /\ UNCHANGED <<uvm, closeCalls, ret>>
          ELSE ReturnErr(uvm, "errBadUVMOpts")
    /\ UNCHANGED <<opts, doc, fullDoc, uvmFolder, scratchFolder, fs, fsLog, hcs,
                   listeners, replayLog, cloneIdx>>

\* uvmfolder.LocateUVMFolder(ctx, opts.LayerFolders): one of the layer folders,
\* or an error
LocateUVMFolder ==
    /\ UNCHANGED <<netnsVars, setupVars, mountVars, callVars>>
    /\ pc = "locate"
    /\ Step("locate")
    /\ \/ /\ \E f \in Range(opts.LayerFolders) : uvmFolder' = f
          /\ pc' = PcAfter("locate")
          /\ UNCHANGED <<uvm, closeCalls, ret>>
       \/ /\ ReturnErr(uvm, "locate")
          /\ UNCHANGED uvmFolder
    /\ UNCHANGED <<opts, doc, fullDoc, scratchFolder, fs, fsLog, hcs, listeners,
                   replayLog, cloneIdx>>

\* variant: the first layer folder is taken as the scratch folder
FirstLayerFolder(o) == o.LayerFolders[1]

\* opts.LayerFolders[len(opts.LayerFolders)-1]
LastLayerFolder(o) == o.LayerFolders[Len(o.LayerFolders)]

\* getScratchFolder and the caller's error check
GetScratchFolder ==
    /\ UNCHANGED <<netnsVars, setupVars, mountVars, callVars>>
    /\ pc = "scratchFolder"
    /\ Step("scratchFolder")
    /\ LET folder == LastLayerFolder(opts) IN
       \E st \in StatResults(fs, folder) :
          \/ \* nothing to create, or os.MkdirAll succeeded
             /\ IF IsNotExist(st)
                   THEN /\ fs' = fs \cup {folder}
                        /\ fsLog' = Append(fsLog, <<"mkdir", folder, callNo>>)
                   ELSE UNCHANGED <<fs, fsLog>>
             /\ scratchFolder' = folder
             /\ pc' = PcAfter("scratchFolder")
             /\ UNCHANGED <<uvm, closeCalls, ret>>
          \/ \* os.MkdirAll failed
             /\ IsNotExist(st)
             /\ ReturnErr(uvm, "scratchFolder")
             /\ UNCHANGED <<fs, fsLog, scratchFolder>>
    /\ UNCHANGED <<opts, doc, fullDoc, uvmFolder, hcs, listeners, replayLog, cloneIdx>>

\* uvm.normalizeProcessorCount(ctx, opts.ProcessorCount, processorTopology): a
\* request above the host's logical processor count is lowered to that count
NormalizeProcessorCount(requested, hostCount) ==
    IF requested > hostCount THEN hostCount ELSE requested

\* variant: the document carries the requested count
ProcessorCountRequested(u, o) == o.ProcessorCount

\* Processor: &hcsschema.Processor2{Count: uvm.processorCount, ...}
ProcessorCountOf(u, o) == u.processorCount

\* uvm.processorCount = uvm.normalizeProcessorCount(...)
WithProcessorCount(u, o, hostCount) ==
    [u EXCEPT !.processorCount = NormalizeProcessorCount(o.ProcessorCount, hostCount)]

\* prepareConfigDoc: the document built from the options and the located OS
\* image folder: the owner, the OS share rooted at <uvmFolder>\UtilityVM\Files and
\* the guest-connection marker and the processor count (the memory, boot and
\* QoS leaves, which no later statement of CreateWCOW reads or changes, are not
\* carried)
PrepareConfigDoc(u, o, folder) ==
    LET base == (KeyOwner :> u.owner)
                @@ (KeyProcessorCount :> ProcessorCountOf(u, o))
                @@ (KeyShares :> <<Join(folder, "UtilityVM\\Files")>>)
    IN  IF ~o.ExternalGuestConnection
          THEN (KeyGuestConnection :> "{}") @@ base
          ELSE base

\* doc, err := prepareConfigDoc(...): hostProcessorInfo may fail
BuildDoc ==
    /\ UNCHANGED <<netnsVars, setupVars, mountVars, callVars>>
    /\ pc = "prepare"
    /\ Step("prepare")
    /\ \/ /\ uvm' = WithProcessorCount(uvm, opts, hostProcs)
          /\ doc' = PrepareConfigDoc(uvm', opts, uvmFolder)
          /\ pc' = PcAfter("prepare")
          /\ UNCHANGED <<closeCalls, ret>>
       \/ /\ ReturnErr(uvm, "prepareDoc")
          /\ UNCHANGED doc
    /\ UNCHANGED <<opts, fullDoc, uvmFolder, scratchFolder, fs, fsLog, hcs, listeners,
                   replayLog, cloneIdx>>

\* scratchPath := filepath.Join(scratchFolder, "sandbox.vhdx")
ScratchPath(folder) == Join(folder, SandboxVhdx)

\* doc.VirtualMachine.Devices.Scsi = map[string]Scsi{"0": {Attachments: {"0": {...}}}}
WithScratchAttachment(d, path) ==
    (KeyScsiPath(0, 0) :> path) @@ (KeyScsiType(0, 0) :> "VirtualDisk")
    @@ [k \in {kk \in DOMAIN d : Len(kk) < 3 \/ kk[3] # "Scsi"} |-> d[k]]

\* uvm.scsiLocations[0][0] = &SCSIMount{vm: uvm, HostPath: ..., refCount: 1}
WithScratchMount(u, d) ==
    [u EXCEPT !.scsiLocations =
        (<<0, 0>> :> [HostPath |-> d[KeyScsiPath(0, 0)], refCount |-> 1]) @@ @]

\* wcow.CreateUVMScratch: creates the scratch disk in the scratch folder
CreateUVMScratch(files, folder) == files \cup {ScratchPath(folder)}

\* variant: the scratch disk is provisioned for clones too
FromScratchAlways(o) == TRUE

\* if !opts.IsClone
FromScratch(o) == ~o.IsClone

\* the !opts.IsClone branch
ProvisionScratch ==
    /\ UNCHANGED <<netnsVars, setupVars, mountVars, callVars>>
    /\ pc = "branch"
    /\ FromScratch(opts)
    /\ Step("provision")
    /\ LET scratchPath == ScratchPath(scratchFolder) IN
       \E st \in StatResults(fs, scratchPath) :
          \/ \* nothing to create, or the disk was created (in a folder that
             \* exists)
             /\ IF IsNotExist(st)
                   THEN /\ scratchFolder \in fs
                        /\ fs' = CreateUVMScratch(fs, scratchFolder)
                        /\ fsLog' = Append(fsLog, <<"createScratch", scratchPath, callNo>>)
                   ELSE UNCHANGED <<fs, fsLog>>
             /\ doc' = WithScratchAttachment(doc, scratchPath)
             /\ uvm' = WithScratchMount(uvm, doc')
             /\ pc' = PcAfter("branch")
             /\ UNCHANGED <<closeCalls, ret>>
          \/ /\ IsNotExist(st)
             /\ ReturnErr(uvm, "createScratch")
             /\ UNCHANGED <<fs, fsLog, doc>>
    /\ UNCHANGED <<opts, fullDoc, uvmFolder, scratchFolder, hcs, listeners, replayLog,
                   cloneIdx>>

\* the else branch, up to the range loop:
\* doc.VirtualMachine.RestoreState.TemplateSystemId = opts.TemplateConfig.UVMID
BeginClone ==
    /\ UNCHANGED <<netnsVars, setupVars, mountVars, callVars>>
    /\ pc = "branch"
    /\ opts.IsClone
    /\ Step("beginClone")
    /\ doc' = (KeyRestoreTemplate :> opts.TemplateConfig[1].UVMID) @@ doc
    /\ cloneIdx' = 1
    /\ pc' = "clone"
    /\ UNCHANGED <<opts, uvm, fullDoc, uvmFolder, scratchFolder, fs, fsLog, hcs,
                   listeners, replayLog, closeCalls, ret>>

\* cloneableResource.Clone(ctx, uvm, cd): what a successful replay adds to the
\* target document
CloneIntoDoc(kind, i, cd) ==
    IF kind = "scsi"
      THEN (KeyScsiPath(0, 0) :> ScratchPath(cd.scratchFolder))
           @@ (KeyScsiType(0, 0) :> "VirtualDisk") @@ cd.doc
      ELSE [cd.doc EXCEPT ![KeyShares] = Append(@, <<"share", ToString(i)>>)]

\* ... and what it registers on the target handle
CloneIntoUVM(kind, i, u, cd) ==
    IF kind = "scsi"
      THEN [u EXCEPT !.scsiLocations =
              (<<0, 0>> :> [HostPath |-> ScratchPath(cd.scratchFolder), refCount |-> 1]) @@ @]
      ELSE [u EXCEPT !.vsmbDirShares = @ \cup {<<"share", ToString(i)>>}]

\* &CloneData{doc: doc, scratchFolder: scratchFolder, UVMID: opts.ID}
CloneDataFor(d, folder, o) == [doc |-> d, scratchFolder |-> folder, UVMID |-> o.ID]

\* variant: the list is walked from its end
NextResourceReversed(o, i) ==
    o.TemplateConfig[1].Resources[Len(o.TemplateConfig[1].Resources) + 1 - i]

\* the resource the range loop visits at its i-th iteration
NextResource(o, i) == o.TemplateConfig[1].Resources[i]

\* variant: the error of Clone is not checked
ReplayFailedIgnored(ok) == FALSE

\* if err != nil { return nil, fmt.Errorf("Failed while cloning: %s", err) }
ReplayFailed(ok) == ~ok

\* variant: replaying a resource rebinds the template config to the clone
TemplateAfterReplayRebound(cfg, id) == [cfg EXCEPT !.UVMID = id]

\* opts.TemplateConfig after an iteration of the range loop: the loop reads
\* UVMID and Resources and assigns neither
TemplateAfterReplay(cfg, id) == cfg

\* one iteration of `for _, cloneableResource := range opts.TemplateConfig.Resources`
CloneResource ==
    /\ UNCHANGED <<netnsVars, setupVars, mountVars, callVars>>
    /\ pc = "clone"
    /\ cloneIdx <= Len(opts.TemplateConfig[1].Resources)
    /\ Step("replay")
    /\ LET kind == NextResource(opts, cloneIdx)
           cd == CloneDataFor(doc, scratchFolder, opts)
       IN  \E ok \in BOOLEAN :
             /\ replayLog' = Append(replayLog,
                                [idx |-> cloneIdx, kind |-> kind, cd |-> cd, ok |-> ok])
             /\ opts' = [opts EXCEPT
                            !.TemplateConfig = <<TemplateAfterReplay(@[1], opts.ID)>>]
             /\ IF ~ReplayFailed(ok)
                   THEN /\ doc' = CloneIntoDoc(kind, cloneIdx, cd)
                        /\ uvm' = CloneIntoUVM(kind, cloneIdx, uvm, cd)
                        /\ cloneIdx' = cloneIdx + 1
                        /\ UNCHANGED <<pc, closeCalls, ret>>
                   ELSE /\ ReturnErr(uvm, "clone")
                        /\ UNCHANGED <<doc, cloneIdx>>
    /\ UNCHANGED <<fullDoc, uvmFolder, scratchFolder, fs, fsLog, hcs, listeners>>

\* variant: the default namespace entry is not added
SeedDefaultNamespaceMissing(u) == [u EXCEPT !.isClone = TRUE]

\* uvm.namespaces[hns.CLONING_DEFAULT_NETWORK_NAMESPACE_ID] = &namespaceInfo{...}
\* uvm.isClone = true
SeedDefaultNamespace(u) ==
    [u EXCEPT !.namespaces = (CLONING_DEFAULT_NETWORK_NAMESPACE_ID :> EmptyNamespaceInfo) @@ @,
              !.isClone = TRUE]

\* the statements after the range loop, inside the else branch
FinishClone ==
    /\ UNCHANGED <<netnsVars, setupVars, mountVars, callVars>>
    /\ pc = "clone"
    /\ cloneIdx > Len(opts.TemplateConfig[1].Resources)
    /\ Step("seedNamespace")
    /\ uvm' = SeedDefaultNamespace(uvm)
    /\ pc' = PcAfter("branch")
    /\ UNCHANGED <<opts, doc, fullDoc, uvmFolder, scratchFolder, fs, fsLog, hcs,
                   listeners, replayLog, cloneIdx, closeCalls, ret>>

\* mergemaps.MergeJSON(doc, fragment): the fragment's value wins on every leaf
\* the two share, every other leaf of either side is kept
MergeJSON(d, fragment) == fragment @@ d

\* fullDoc, err := mergemaps.MergeJSON(doc, ([]byte)(opts.AdditionHCSDocumentJSON))
MergeOverrides ==
    /\ UNCHANGED <<netnsVars, setupVars, mountVars, callVars>>
    /\ pc = "merge"
    /\ Step("merge")
    /\ IF opts.AdditionHCSDocumentJSON.valid
          THEN /\ fullDoc' = MergeJSON(doc, opts.AdditionHCSDocumentJSON.json)
               /\ pc' = PcAfter("merge")
               /\ UNCHANGED <<uvm, closeCalls, ret>>
          ELSE /\ ReturnErr(uvm, "merge")
               /\ UNCHANGED fullDoc
    /\ UNCHANGED <<opts, doc, uvmFolder, scratchFolder, fs, fsLog, hcs, listeners,
                   replayLog, cloneIdx>>

\* the runtime id the host service assigns to the compute system of VM `id`
RuntimeIDOf(id) == <<"runtime", id>>

\* variant: the built document is submitted, without the overrides
SubmittedDocUnmerged(built, merged) == built

\* the document handed to uvm.create
SubmittedDoc(built, merged) == merged

\* err = uvm.create(ctx, fullDoc): submits the document to the host service;
\* on success the handle holds the compute system and its runtime id
CreateComputeSystem ==
    /\ UNCHANGED <<netnsVars, setupVars, mountVars, callVars>>
    /\ pc = "create"
    /\ Step("create")
    /\ \E accepted \in BOOLEAN :
          /\ hcs' = Append(hcs, [id |-> uvm.id, doc |-> SubmittedDoc(doc, fullDoc),
                                  accepted |-> accepted])
          /\ IF accepted
                THEN /\ uvm' = [uvm EXCEPT !.hcsSystem = Len(hcs'),
                                           !.runtimeID = RuntimeIDOf(uvm.id)]
                     /\ pc' = PcAfter("create")
                     /\ UNCHANGED <<closeCalls, ret>>
                ELSE ReturnErr(uvm, "create")
    /\ UNCHANGED <<opts, doc, fullDoc, uvmFolder, scratchFolder, fs, fsLog, listeners,
                   replayLog, cloneIdx>>

\* variant: clones are not forced onto the external guest channel
NeedsExternalGcsOptionOnly(o) == o.ExternalGuestConnection

\* if opts.ExternalGuestConnection || opts.IsClone
NeedsExternalGcs(o) == o.ExternalGuestConnection \/ o.IsClone

\* variant: the listener is bound to the zero runtime id
HvsockAddrUnbound(u) == [VMID |-> <<>>, ServiceID |-> WindowsGcsHvsockServiceID]

\* winio.ListenHvsock(&winio.HvsockAddr{VMID: uvm.runtimeID, ServiceID: ...})
HvsockAddr(u) == [VMID |-> u.runtimeID, ServiceID |-> WindowsGcsHvsockServiceID]

\* the guarded startExternalGcsListener call and `return uvm, nil`
StartListener ==
    /\ UNCHANGED <<netnsVars, setupVars, mountVars, callVars>>
    /\ pc = "listen"
    /\ Step("listen")
    /\ IF NeedsExternalGcs(opts)
          THEN \/ /\ listeners' = Append(listeners, HvsockAddr(uvm))
                  /\ Return([uvm EXCEPT !.gcListener = Len(listeners')], TRUE, NoErr)
               \/ /\ ReturnErr(uvm, "listen")
                  /\ UNCHANGED listeners
          ELSE /\ Return(uvm, TRUE, NoErr)
               /\ UNCHANGED listeners
    /\ UNCHANGED <<opts, doc, fullDoc, uvmFolder, scratchFolder, fs, fsLog, hcs,
                   replayLog, cloneIdx>>

\* --------------------------------------------------- createNetworkNamespace
EndpointIds == {<<"endpoint", ToString(i)>> : i \in 1..MaxEndpoints}
\* coi.Spec.Windows.Network.EndpointList: lists of distinct endpoint ids
EndpointLists ==
    {l \in UNION {[1..n -> EndpointIds] : n \in 0..MaxEndpoints} :
        \A i, j \in DOMAIN l : i # j => l[i] # l[j]}

\* the id hns.CreateNamespace() allocates: one no namespace has yet
FreshNamespaceID(known) == <<"netns", ToString(Cardinality(known) + 1)>>

EmptyResources == [netNS |-> <<>>, createdNetNS |-> FALSE, resources |-> <<>>]

NetNSFresh ==
    /\ resources = EmptyResources
    /\ netID = <<>>
    /\ endpoints = <<>>
    /\ bindIdx = 1
    /\ hnsNamespaces = EmptyMap
    /\ bindLog = <<>>
    /\ nsRet = [returned |-> FALSE, err |-> NoErr]
    /\ nsCalls = [started |-> 1, succeeded |-> 0]

InitNetNS ==
    /\ coi \in [EndpointList : EndpointLists]
    /\ nsPc = "start"
    /\ NetNSFresh

\* no createNetworkNamespace call is made
IdleNetNS ==
    /\ coi = [EndpointList |-> <<>>]
    /\ nsPc = "idle"
    /\ NetNSFresh

\* variant: the record is written only with the resource entry
RecordAllocatedLate(r, id) == r

\* resources.netNS = netID; resources.createdNetNS = true
RecordAllocated(r, id) == [r EXCEPT !.netNS = id, !.createdNetNS = TRUE]

\* netID, err := hns.CreateNamespace(); on success
\* resources.netNS = netID; resources.createdNetNS = true; endpoints := make([]string, 0)
CreateNamespace ==
    /\ UNCHANGED <<createVars, setupVars, mountVars>>
    /\ nsPc = "start"
    /\ \/ /\ netID' = FreshNamespaceID(DOMAIN hnsNamespaces)
          /\ hnsNamespaces' = (netID' :> <<>>) @@ hnsNamespaces
          /\ resources' = RecordAllocated(resources, netID')
          /\ endpoints' = <<>>
          /\ bindIdx' = 1
          /\ nsPc' = "bind"
          /\ UNCHANGED nsRet
       \/ /\ nsRet' = [returned |-> TRUE, err |-> "CreateNamespace"]
          /\ nsPc' = "done"
          /\ UNCHANGED <<netID, hnsNamespaces, resources, endpoints, bindIdx>>
    /\ UNCHANGED <<coi, bindLog, nsCalls>>

\* variant: the error of AddNamespaceEndpoint is not checked
BindFailedIgnored(ok) == FALSE

\* if err != nil { return err }  after hns.AddNamespaceEndpoint
BindFailed(ok) == ~ok

\* one iteration of `for _, endpointID := range coi.Spec.Windows.Network.EndpointList`
AddNamespaceEndpoint ==
    /\ UNCHANGED <<createVars, setupVars, mountVars>>
    /\ nsPc = "bind"
    /\ bindIdx <= Len(coi.EndpointList)
    /\ LET endpointID == coi.EndpointList[bindIdx] IN
       \E ok \in BOOLEAN :
          /\ bindLog' = Append(bindLog, [ns |-> netID, ep |-> endpointID, ok |-> ok])
          /\ hnsNamespaces' = IF ok THEN [hnsNamespaces EXCEPT ![netID] = Append(@, endpointID)]
                                    ELSE hnsNamespaces
          /\ IF BindFailed(ok)
                THEN /\ nsRet' = [returned |-> TRUE, err |-> "AddNamespaceEndpoint"]
                     /\ nsPc' = "done"
                     /\ UNCHANGED <<endpoints, bindIdx>>
                ELSE /\ endpoints' = Append(endpoints, endpointID)
                     /\ bindIdx' = bindIdx + 1
                     /\ UNCHANGED <<nsRet, nsPc>>
    /\ UNCHANGED <<coi, resources, netID, nsCalls>>

\* variant: the endpoint ids are not recorded
NetworkEndpointsNoIds(eps, ns) == [EndpointIDs |-> <<>>, Namespace |-> ns]

\* &uvm.NetworkEndpoints{EndpointIDs: endpoints, Namespace: netID}
NetworkEndpoints(eps, ns) == [EndpointIDs |-> eps, Namespace |-> ns]

\* resources.resources = append(resources.resources, ...); return nil
RecordNamespace ==
    /\ UNCHANGED <<createVars, setupVars, mountVars>>
    /\ nsPc = "bind"
    /\ bindIdx > Len(coi.EndpointList)
    /\ resources' = [resources EXCEPT
                       !.resources = Append(@, NetworkEndpoints(endpoints, netID))]
    /\ nsRet' = [returned |-> TRUE, err |-> NoErr]
    /\ nsCalls' = [nsCalls EXCEPT !.succeeded = @ + 1]
    /\ nsPc' = "done"
    /\ UNCHANGED <<coi, netID, endpoints, bindIdx, hnsNamespaces, bindLog>>

\* the caller creates the namespace of another container with the same record
NextNetNSCall ==
    /\ UNCHANGED <<createVars, setupVars, mountVars>>
    /\ nsPc = "done"
    /\ nsCalls.started < MaxNetNSCalls
    /\ coi' \in [EndpointList : EndpointLists]
    /\ nsCalls' = [nsCalls EXCEPT !.started = @ + 1]
    /\ nsPc' = "start"
    /\ netID' = <<>>
    /\ endpoints' = <<>>
    /\ bindIdx' = 1
    /\ bindLog' = <<>>
    /\ nsRet' = [returned |-> FALSE, err |-> NoErr]
    /\ UNCHANGED <<resources, hnsNamespaces>>

\* ---------------------------------------------------- SetupNetworkNamespace
\* two flows set up one namespace each on the same running VM
Callers == {1, 2}
\* the nsid argument of each caller's call
NsidOf(c) == <<"nsid", ToString(c)>>
Nsids == {NsidOf(c) : c \in Callers}

\* hns.GetHNSEndpointByID(id): the descriptor of endpoint `id`
HNSEndpoint(id) == [Id |-> id, Name |-> <<"name-of", id>>]

SetupFresh ==
    /\ sIds = [c \in Callers |-> <<>>]
    /\ sEndpoints = [c \in Callers |-> <<>>]
    /\ sErr = [c \in Callers |-> NoErr]
    /\ sRet = [c \in Callers |-> [returned |-> FALSE, err |-> NoErr]]
    /\ vmNamespaces = EmptyMap
    /\ nsState = [n \in Nsids |-> "Unattached"]
    /\ vmLog = <<>>

InitSetup ==
    /\ hnsEndpoints \in [Nsids -> EndpointLists]
    /\ sPc = [c \in Callers |-> "fetch"]
    /\ SetupFresh

\* no SetupNetworkNamespace call is made
IdleSetup ==
    /\ hnsEndpoints = [n \in Nsids |-> <<>>]
    /\ sPc = [c \in Callers |-> "idle"]
    /\ SetupFresh

\* `return err` / `return nil` of SetupNetworkNamespace
SetupReturn(c, e) ==
    /\ sRet' = [sRet EXCEPT ![c] = [returned |-> TRUE, err |-> e]]
    /\ sPc' = [sPc EXCEPT ![c] = "done"]

\* GetNamespaceEndpoints: ids, err := hns.GetNamespaceEndpoints(netNS)
FetchEndpointIds(c) ==
    /\ UNCHANGED <<createVars, netnsVars, mountVars>>
    /\ sPc[c] = "fetch"
    /\ \/ /\ sIds' = [sIds EXCEPT ![c] = hnsEndpoints[NsidOf(c)]]
          /\ sPc' = [sPc EXCEPT ![c] = "resolve"]
          /\ UNCHANGED <<sRet, sErr>>
       \/ /\ sErr' = [sErr EXCEPT ![c] = "GetNamespaceEndpoints"]
          /\ SetupReturn(c, "GetNamespaceEndpoints")
          /\ UNCHANGED sIds
    /\ UNCHANGED <<sEndpoints, hnsEndpoints, vmNamespaces, nsState, vmLog>>

\* GetNamespaceEndpoints: one iteration of `for _, id := range ids`
ResolveEndpoint(c) ==
    /\ UNCHANGED <<createVars, netnsVars, mountVars>>
    /\ sPc[c] = "resolve"
    /\ Len(sEndpoints[c]) < Len(sIds[c])
    /\ LET id == sIds[c][Len(sEndpoints[c]) + 1] IN
       \/ /\ sEndpoints' = [sEndpoints EXCEPT ![c] = Append(@, HNSEndpoint(id))]
          /\ UNCHANGED <<sPc, sRet, sErr>>
       \/ /\ sErr' = [sErr EXCEPT ![c] = "GetHNSEndpointByID"]
          /\ SetupReturn(c, "GetHNSEndpointByID")
          /\ UNCHANGED sEndpoints
    /\ UNCHANGED <<sIds, hnsEndpoints, vmNamespaces, nsState, vmLog>>

\* hostingSystem.AddNetNS(ctx, nsid): on success the namespace is in the VM's
\* namespace map, with no NICs
VMAddNetNS(m, nsid) == (nsid :> <<>>) @@ m

\* hostingSystem.AddEndpointsToNS(ctx, nsid, endpoints): the NICs of the first k
\* endpoints are in the namespace (all of them on success)
VMAddEndpoints(m, nsid, eps, k) ==
    [m EXCEPT ![nsid] = [i \in 1..k |-> eps[i].Id]]

\* hostingSystem.RemoveNetNS(ctx, nsid): on success the namespace and its NICs
\* are out of the VM's namespace map
VMRemoveNetNS(m, nsid) == [n \in DOMAIN m \ {nsid} |-> m[n]]

VMCall(c, op, ok) == [caller |-> c, op |-> op, nsid |-> NsidOf(c), ok |-> ok]

\* variant: the error of AddNetNS is not checked
AfterAddNetNSUnchecked(ok) == "addEndpoints"

\* where SetupNetworkNamespace goes after `err = hostingSystem.AddNetNS(ctx, nsid)`
AfterAddNetNS(ok) == IF ok THEN "addEndpoints" ELSE "done"

\* variant: the namespace is attached as soon as the ids are fetched
AllResolvedUnchecked(ids, eps) == TRUE

\* the range loop of GetNamespaceEndpoints is exhausted: return endpoints, nil
AllResolved(ids, eps) == Len(eps) = Len(ids)

\* err = hostingSystem.AddNetNS(ctx, nsid); if err != nil { return err }
AddNetNS(c) ==
    /\ UNCHANGED <<createVars, netnsVars, mountVars>>
    /\ sPc[c] = "resolve"
    /\ AllResolved(sIds[c], sEndpoints[c])
    /\ \E ok \in BOOLEAN :
          /\ vmLog' = Append(vmLog, VMCall(c, "AddNetNS", ok))
          /\ IF ok
                THEN /\ vmNamespaces' = VMAddNetNS(vmNamespaces, NsidOf(c))
                     /\ nsState' = [nsState EXCEPT ![NsidOf(c)] = "NamespaceAttached"]
                ELSE UNCHANGED <<vmNamespaces, nsState>>
          /\ sErr' = [sErr EXCEPT ![c] = IF ok THEN NoErr ELSE "AddNetNS"]
          /\ IF AfterAddNetNS(ok) = "done"
                THEN SetupReturn(c, sErr'[c])
                ELSE /\ sPc' = [sPc EXCEPT ![c] = AfterAddNetNS(ok)]
                     /\ UNCHANGED sRet
    /\ UNCHANGED <<sIds, sEndpoints, hnsEndpoints>>

\* variant: the failed attach returns without the clean-up call
AfterAddEndpointsNoRollback(ok) == "done"

\* where it goes after `err = hostingSystem.AddEndpointsToNS(ctx, nsid, endpoints)`
AfterAddEndpoints(ok) == IF ok THEN "done" ELSE "rollback"

\* err = hostingSystem.AddEndpointsToNS(ctx, nsid, endpoints)
AddEndpointsToNS(c) ==
    /\ UNCHANGED <<createVars, netnsVars, mountVars>>
    /\ sPc[c] = "addEndpoints"
    /\ \E ok \in BOOLEAN :
       \E k \in 0..Len(sEndpoints[c]) :
          /\ ok => k = Len(sEndpoints[c])
          /\ vmLog' = Append(vmLog, VMCall(c, "AddEndpointsToNS", ok))
          /\ IF NsidOf(c) \in DOMAIN vmNamespaces
                THEN vmNamespaces' = VMAddEndpoints(vmNamespaces, NsidOf(c), sEndpoints[c], k)
                ELSE UNCHANGED vmNamespaces
          /\ nsState' = IF ok THEN [nsState EXCEPT ![NsidOf(c)] = "EndpointsAttached"]
                              ELSE nsState
          /\ sErr' = [sErr EXCEPT ![c] = IF ok THEN NoErr ELSE "AddEndpointsToNS"]
          /\ IF AfterAddEndpoints(ok) = "done"
                THEN SetupReturn(c, sErr'[c])
                ELSE /\ sPc' = [sPc EXCEPT ![c] = AfterAddEndpoints(ok)]
                     /\ UNCHANGED sRet
    /\ UNCHANGED <<sIds, sEndpoints, hnsEndpoints>>

\* variant: the error of the remove call replaces the attach error
RollbackResultPropagated(attachErr, removeErr) ==
    IF removeErr # NoErr THEN removeErr ELSE attachErr

\* hostingSystem.RemoveNetNS(ctx, nsid); return err -- the result of the
\* remove call is dropped, err still holds the AddEndpointsToNS error
RollbackResult(attachErr, removeErr) == attachErr

\* variant: the rollback removes every namespace id but the caller's
RollbackTargetOther(c) == CHOOSE n \in Nsids : n # NsidOf(c)

\* hostingSystem.RemoveNetNS(ctx, nsid): the id the caller was given
RollbackTarget(c) == NsidOf(c)

\* // Best effort clean up the NS
RollbackNetNS(c) ==
    /\ UNCHANGED <<createVars, netnsVars, mountVars>>
    /\ sPc[c] = "rollback"
    /\ \E ok \in BOOLEAN :
          /\ vmLog' = Append(vmLog, [VMCall(c, "RemoveNetNS", ok)
                                      EXCEPT !.nsid = RollbackTarget(c)])
          /\ IF ok /\ RollbackTarget(c) \in DOMAIN vmNamespaces
                THEN /\ vmNamespaces' = VMRemoveNetNS(vmNamespaces, RollbackTarget(c))
                     /\ nsState' = [nsState EXCEPT ![RollbackTarget(c)] = "Unattached"]
                ELSE UNCHANGED <<vmNamespaces, nsState>>
          /\ SetupReturn(c, RollbackResult(sErr[c], IF ok THEN NoErr ELSE "RemoveNetNS"))
    /\ UNCHANGED <<sIds, sEndpoints, sErr, hnsEndpoints>>

\* -------------------------------------------------------- addMountsToClone
MappedDirectoryResourcePath == "Container/MappedDirectories"

\* variant: mapped pipes are added under the mapped-directory path
MappedPipeResourcePathShared == "Container/MappedDirectories"

MappedPipeResourcePath == "Container/MappedPipes"

\* mounts.mdsv2 and mounts.mpsv2: settings identified by their HostPath
DirectoryLists ==
    UNION {[1..n -> {[HostPath |-> "dirA"], [HostPath |-> "dirB"]}] : n \in 0..MaxMounts}
PipeLists ==
    UNION {[1..n -> {[HostPath |-> "pipeA"], [HostPath |-> "pipeB"]}] : n \in 0..MaxMounts}

InitMounts ==
    /\ mounts \in [mdsv2 : DirectoryLists, mpsv2 : PipeLists]
    /\ mPc = "dirs"
    /\ mIdx = 1
    /\ modifyLog = <<>>
    /\ attached = <<>>
    /\ mRet = [returned |-> FALSE, err |-> NoErr]

\* no addMountsToClone call is made
IdleMounts ==
    /\ mounts = [mdsv2 |-> <<>>, mpsv2 |-> <<>>]
    /\ mPc = "idle"
    /\ mIdx = 1
    /\ modifyLog = <<>>
    /\ attached = <<>>
    /\ mRet = [returned |-> FALSE, err |-> NoErr]

\* requestDocument := &hcsschema.ModifySettingRequest{RequestType: requesttype.Add, ...}
ModifySettingRequest(path, settings) ==
    [RequestType |-> "Add", ResourcePath |-> path, Settings |-> settings]

\* c.Modify(ctx, requestDocument) on the container: an accepted Add request
\* attaches the settings under the resource path
ContainerModify(att, req) ==
    IF req.RequestType = "Add"
      THEN Append(att, [ResourcePath |-> req.ResourcePath, Settings |-> req.Settings])
      ELSE SelectSeq(att, LAMBDA a : ~(a.ResourcePath = req.ResourcePath
                                       /\ a.Settings = req.Settings))

\* err := c.Modify(ctx, requestDocument); if err != nil { return fmt.Errorf(...) }
Modify(req, errName) ==
    \E ok \in BOOLEAN :
        /\ modifyLog' = Append(modifyLog, [req |-> req, ok |-> ok])
        /\ IF ok
              THEN /\ attached' = ContainerModify(attached, req)
                   /\ mIdx' = mIdx + 1
                   /\ UNCHANGED <<mPc, mRet>>
              ELSE /\ mRet' = [returned |-> TRUE, err |-> errName]
                   /\ mPc' = "done"
                   /\ UNCHANGED <<attached, mIdx>>

\* one iteration of `for _, md := range mounts.mdsv2`
AddMappedDirectory ==
    /\ UNCHANGED <<createVars, netnsVars, setupVars>>
    /\ mPc = "dirs"
    /\ mIdx <= Len(mounts.mdsv2)
    /\ Modify(ModifySettingRequest(MappedDirectoryResourcePath, mounts.mdsv2[mIdx]),
              "mappedDirectory")
    /\ UNCHANGED mounts

\* the first range loop is exhausted
EndMappedDirectories ==
    /\ UNCHANGED <<createVars, netnsVars, setupVars>>
    /\ mPc = "dirs"
    /\ mIdx > Len(mounts.mdsv2)
    /\ mPc' = "pipes"
    /\ mIdx' = 1
    /\ UNCHANGED <<mounts, modifyLog, attached, mRet>>

\* one iteration of `for _, mp := range mounts.mpsv2`
AddMappedPipe ==
    /\ UNCHANGED <<createVars, netnsVars, setupVars>>
    /\ mPc = "pipes"
    /\ mIdx <= Len(mounts.mpsv2)
    /\ Modify(ModifySettingRequest(MappedPipeResourcePath, mounts.mpsv2[mIdx]),
              "mappedPipe")
    /\ UNCHANGED mounts

\* return nil
MountsAdded ==
    /\ UNCHANGED <<createVars, netnsVars, setupVars>>
    /\ mPc = "pipes"
    /\ mIdx > Len(mounts.mpsv2)
    /\ mRet' = [returned |-> TRUE, err |-> NoErr]
    /\ mPc' = "done"
    /\ UNCHANGED <<mounts, mIdx, modifyLog, attached>>

\* ------------------------------------------------- callers of CreateWCOW
\* the caller invokes uvm.Close() on the handle of the call that returned
CallerClose ==
    /\ UNCHANGED <<netnsVars, setupVars, mountVars, callVars>>
    /\ pc = "done"
    /\ uvm.constructed
    /\ closeCalls < MaxCloses
    /\ uvm' = Close(uvm)
    /\ closeCalls' = closeCalls + 1
    /\ UNCHANGED <<opts, pc, doc, fullDoc, uvmFolder, scratchFolder, fs, fsLog, hcs,
                   listeners, replayLog, cloneIdx, ret, trace>>

\* the options of consecutive calls: the scratch folder, the kind of call and
\* the way the guest connection is made vary, the template config is shared
RepeatTemplate == <<[UVMID |-> TemplateID, Resources |-> <<"scsi", "vsmb">>]>>
RepeatOptionSet ==
    [ ID : {"vm1"},
      Owner : {"owner"},
      LayerFolders : {<<ScratchDir>>, <<LayerDir(1)>>},
      IsClone : BOOLEAN,
      TemplateConfig : {RepeatTemplate},
      ExternalGuestConnection : {FALSE},
      ProcessorCount : {MaxHostProcs},
      AdditionHCSDocumentJSON : {[valid |-> TRUE, json |-> EmptyMap]} ]

\* what is kept of a call that returned
FinishedCall ==
    [opts |-> opts, uvm |-> uvm, ret |-> ret, replayLog |-> replayLog, trace |-> trace,
     hcs |-> hcs, fs |-> fs]

\* the caller makes another CreateWCOW call on the same host: the file system
\* stays as the earlier calls left it, opts.TemplateConfig is the same pointer
NextCreateCall ==
    /\ UNCHANGED <<netnsVars, setupVars, mountVars>>
    /\ pc = "done"
    /\ callNo < MaxCalls
    /\ history' = Append(history, FinishedCall)
    /\ callNo' = callNo + 1
    /\ \E o \in RepeatOptionSet :
          opts' = [o EXCEPT !.TemplateConfig = opts.TemplateConfig]
    /\ pc' = "start"
    /\ uvm' = NilUVM
    /\ doc' = EmptyMap
    /\ fullDoc' = EmptyMap
    /\ uvmFolder' = <<>>
    /\ scratchFolder' = <<>>
    /\ hcs' = <<>>
    /\ listeners' = <<>>
    /\ replayLog' = <<>>
    /\ cloneIdx' = 1
    /\ closeCalls' = 0
    /\ ret' = [returned |-> FALSE, handle |-> FALSE, err |-> NoErr]
    /\ trace' = <<>>
    /\ UNCHANGED <<fs, fsLog, hostProcs>>

\* the caller closes the handle of an earlier call (a clone or the template
\* is removed)
CloseFinished ==
    /\ UNCHANGED <<netnsVars, setupVars, mountVars>>
    /\ \E i \in DOMAIN history :
          /\ history[i].ret.handle
          /\ ~history[i].uvm.closed
          /\ history' = [history EXCEPT ![i].uvm = Close(@)]
    /\ UNCHANGED <<opts, pc, uvm, doc, fullDoc, uvmFolder, scratchFolder, fs, fsLog, hcs,
                   listeners, replayLog, cloneIdx, closeCalls, ret, trace, hostProcs,
                   callNo>>

\* ---------------------------------------------------------- specifications
\* one CreateWCOW call
Init == InitCreate /\ IdleNetNS /\ IdleSetup /\ IdleMounts

Next ==
    \/ GenerateID
    \/ VerifyOptions
    \/ LocateUVMFolder
    \/ GetScratchFolder
    \/ BuildDoc
    \/ ProvisionScratch
    \/ BeginClone
    \/ CloneResource
    \/ FinishClone
    \/ MergeOverrides
    \/ CreateComputeSystem
    \/ StartListener

Spec == Init /\ [][Next]_vars

\* consecutive createNetworkNamespace calls of one caller
InitNetNSCalls == IdleCreate /\ InitNetNS /\ IdleSetup /\ IdleMounts

NextNetNS ==
    \/ CreateNamespace
    \/ AddNamespaceEndpoint
    \/ RecordNamespace
    \/ NextNetNSCall

SpecNetNS == InitNetNSCalls /\ [][NextNetNS]_vars

\* concurrent SetupNetworkNamespace calls on one VM handle
InitSetupCalls == IdleCreate /\ IdleNetNS /\ InitSetup /\ IdleMounts

NextSetup ==
    \E c \in Callers :
        \/ FetchEndpointIds(c)
        \/ ResolveEndpoint(c)
        \/ AddNetNS(c)
        \/ AddEndpointsToNS(c)
        \/ RollbackNetNS(c)

SpecSetup == InitSetupCalls /\ [][NextSetup]_vars

\* one CreateWCOW call on hosts with different processor counts
ProcOptionSet ==
    [ ID : {"vm1"},
      Owner : {"owner"},
      LayerFolders : {<<ScratchDir>>},
      IsClone : BOOLEAN,
      TemplateConfig : {RepeatTemplate},
      ExternalGuestConnection : BOOLEAN,
      ProcessorCount : 1..MaxProcRequest,
      AdditionHCSDocumentJSON : {[valid |-> TRUE, json |-> EmptyMap]} ]

InitProc ==
    /\ opts \in ProcOptionSet
    /\ fs \in InitialFileSystems
    /\ hostProcs \in 1..MaxHostProcs
    /\ pc = "start"
    /\ CreateFresh
    /\ IdleNetNS /\ IdleSetup /\ IdleMounts

SpecProc == InitProc /\ [][Next]_vars

\* one CreateWCOW call, whose handle the caller then closes
NextClose ==
    \/ Next
    \/ CallerClose

SpecClose == Init /\ [][NextClose]_vars

\* consecutive CreateWCOW calls on one host
InitRepeat ==
    /\ opts \in RepeatOptionSet
    /\ fs \in InitialFileSystems
    /\ hostProcs = MaxHostProcs
    /\ pc = "start"
    /\ CreateFresh
    /\ IdleNetNS /\ IdleSetup /\ IdleMounts

NextRepeat ==
    \/ Next
    \/ NextCreateCall
    \/ CloseFinished

SpecRepeat == InitRepeat /\ [][NextRepeat]_vars

\* one addMountsToClone call
InitMountsCall == IdleCreate /\ IdleNetNS /\ IdleSetup /\ InitMounts

NextMounts ==
    \/ AddMappedDirectory
    \/ EndMappedDirectories
    \/ AddMappedPipe
    \/ MountsAdded

SpecMounts == InitMountsCall /\ [][NextMounts]_vars

\* ------------------------------------------------------------------ claims
Succeeded == ret.returned /\ ret.handle
Failed == ret.returned /\ uvm.constructed /\ ret.err # NoErr
Resources == IF opts.TemplateConfig = <<>> THEN <<>> ELSE opts.TemplateConfig[1].Resources
DefaultNamespaceSeeded ==
    /\ CLONING_DEFAULT_NETWORK_NAMESPACE_ID \in DOMAIN uvm.namespaces
    /\ uvm.namespaces[CLONING_DEFAULT_NETWORK_NAMESPACE_ID].nics = EmptyMap
FsCreations(what) == {i \in DOMAIN fsLog : fsLog[i][1] = what}

\* C1: once the handle is constructed, a CreateWCOW that returns an error has
\* invoked Close exactly once and returns no handle, whichever step failed; a
\* CreateWCOW that returns no error has not invoked Close and returns the
\* handle; Close is never invoked while the call is still running.
C1_CloseOnEveryFailure ==
    /\ ~ret.returned => closeCalls = 0 /\ ~uvm.closed
    /\ (ret.returned /\ uvm.constructed) =>
          IF ret.err # NoErr
            THEN closeCalls = 1 /\ uvm.closed /\ ~ret.handle
            ELSE closeCalls = 0 /\ ~uvm.closed /\ ret.handle
    /\ (pc = "done") = ret.returned

C1_Witness == Failed /\ ret.err = "listen" /\ closeCalls = 1 /\ hcs # <<>>

\* C6: a successful non-clone call leaves exactly one SCSI attachment in the
\* built document, at controller 0 slot 0 with path <last layer folder>/sandbox.vhdx,
\* and the handle's slot (0,0) holds that path with reference count 1; a clone
\* call never creates a scratch disk, and its slot (0,0) is populated only when
\* a SCSI resource was replayed successfully.
C6_ScratchSlot ==
    /\ (Succeeded /\ ~opts.IsClone) =>
          LET path == opts.LayerFolders[Len(opts.LayerFolders)] \o <<"sandbox.vhdx">> IN
          /\ ScsiAttachments(doc) = {<<"0", "0">>}
          /\ doc[KeyScsiPath(0, 0)] = path
          /\ DOMAIN uvm.scsiLocations = {<<0, 0>>}
          /\ uvm.scsiLocations[<<0, 0>>] = [HostPath |-> path, refCount |-> 1]
    /\ opts.IsClone =>
          /\ FsCreations("createScratch") = {}
          /\ <<0, 0>> \in DOMAIN uvm.scsiLocations =>
                \E i \in DOMAIN replayLog : replayLog[i].kind = "scsi" /\ replayLog[i].ok

C6_Witness ==
    /\ Succeeded /\ ~opts.IsClone /\ Len(opts.LayerFolders) = 2
    /\ FsCreations("createScratch") # {}
    /\ uvm.scsiLocations[<<0, 0>>].HostPath = <<"scratchDir", "sandbox.vhdx">>

\* C7: every successful clone call has opened one external guest-channel
\* listener and stored it on the handle, whatever ExternalGuestConnection is.
C7_CloneForcesExternalGcs ==
    (Succeeded /\ opts.IsClone) =>
        /\ Len(listeners) = 1
        /\ uvm.gcListener = 1
        /\ listeners[1].VMID = <<"runtime", opts.ID>>

C7_Witness == Succeeded /\ opts.IsClone /\ ~opts.ExternalGuestConnection /\ uvm.gcListener = 1

\* C8: the i-th Clone call is on the i-th recorded resource, is made only when
\* every earlier Clone call succeeded, and receives the new VM id, the scratch
\* folder and the one target document (as the earlier replays left it); a
\* successful clone call has replayed the whole list, a non-clone call nothing.
C8_ReplayInRecordedOrder ==
    /\ Len(replayLog) <= Len(Resources)
    /\ \A i \in DOMAIN replayLog :
          /\ replayLog[i].idx = i
          /\ replayLog[i].kind = Resources[i]
          /\ i < Len(replayLog) => replayLog[i].ok
          /\ replayLog[i].cd.UVMID = opts.ID
          /\ replayLog[i].cd.scratchFolder = opts.LayerFolders[Len(opts.LayerFolders)]
          /\ KeyRestoreTemplate \in DOMAIN replayLog[i].cd.doc
          /\ i > 1 => replayLog[i].cd.doc =
                         CloneIntoDoc(replayLog[i - 1].kind, i - 1, replayLog[i - 1].cd)
    /\ (Succeeded /\ opts.IsClone) => Len(replayLog) = Len(Resources)
    /\ ~opts.IsClone => replayLog = <<>>

C8_Witness ==
    /\ Succeeded /\ Len(replayLog) = 2
    /\ replayLog[1].kind = "scsi" /\ replayLog[2].kind = "vsmb"

\* C9: once a Clone call has failed, CreateWCOW has returned an error and no
\* handle after one Close; the failed call is the last Clone call, the default
\* namespace is not seeded, the clone flag is not set, nothing was submitted
\* to the host service and no listener was opened.
C9_ReplayFailureAborts ==
    (\E i \in DOMAIN replayLog : ~replayLog[i].ok) =>
        /\ ~replayLog[Len(replayLog)].ok
        /\ ret.returned /\ ret.err # NoErr /\ ~ret.handle
        /\ closeCalls = 1
        /\ CLONING_DEFAULT_NETWORK_NAMESPACE_ID \notin DOMAIN uvm.namespaces
        /\ ~uvm.isClone
        /\ hcs = <<>>
        /\ listeners = <<>>
        /\ pc = "done"

C9_Witness ==
    /\ Len(replayLog) = 1 /\ Len(Resources) = 2 /\ ~replayLog[1].ok
    /\ pc = "done"

\* C10: a clone call that has finished its replay loop holds the default clone
\* namespace with no NICs; whenever a clone's document has been submitted the
\* entry was seeded before; a non-clone call never holds the entry.
C10_DefaultNamespaceSeed ==
    /\ (opts.IsClone /\ pc \in {"merge", "create", "listen"}) => DefaultNamespaceSeeded
    /\ (opts.IsClone /\ Succeeded) => DefaultNamespaceSeeded
    /\ (opts.IsClone /\ hcs # <<>>) =>
          /\ DefaultNamespaceSeeded
          /\ \E i, j \in DOMAIN trace :
                i < j /\ trace[i] = "seedNamespace" /\ trace[j] = "create"
    /\ ~opts.IsClone => CLONING_DEFAULT_NETWORK_NAMESPACE_ID \notin DOMAIN uvm.namespaces

C10_Witness == Succeeded /\ opts.IsClone /\ Resources = <<>> /\ DefaultNamespaceSeeded

\* ---- CreateWCOW, continued
LastOf(seq) == seq[Len(seq)]
StepsBefore(a, b) ==
    \A i, j \in DOMAIN trace : (trace[i] = a /\ trace[j] = b) => i < j

\* C11: when the requested processor count is above the host's logical
\* processor count, a call whose document was built holds the host's count on
\* the handle and in the document, every submitted document carries the
\* host's count, and the document-build step can go on to the next step (the
\* request is not refused for its count).
C11_ProcessorClamp ==
    opts.ProcessorCount > hostProcs =>
        /\ (pc = "prepare") => ENABLED (BuildDoc /\ ret' = ret)
        /\ ("prepare" \in Range(trace) /\ ret.err # "prepareDoc") =>
              /\ uvm.processorCount = hostProcs
              /\ doc[KeyProcessorCount] = hostProcs
        /\ \A i \in DOMAIN hcs : hcs[i].doc[KeyProcessorCount] = hostProcs

C11_Witness ==
    /\ Succeeded
    /\ opts.ProcessorCount = MaxProcRequest /\ hostProcs = MaxHostProcs
    /\ opts.ProcessorCount > hostProcs
    /\ hcs[1].doc[KeyProcessorCount] = hostProcs

C12_State ==
    /\ \A i, j \in DOMAIN fsLog :
          (i < j) => ~(fsLog[i][1] = fsLog[j][1] /\ fsLog[i][2] = fsLog[j][2])
    /\ \A i \in DOMAIN history :
          LET h == history[i] IN
          ( /\ ~h.opts.IsClone /\ ~opts.IsClone
            /\ LastOf(h.opts.LayerFolders) = LastOf(opts.LayerFolders)
            /\ "provision" \in Range(h.trace)
            /\ h.ret.err # "createScratch"
            /\ LastOf(opts.LayerFolders) \in h.fs
            /\ Join(LastOf(opts.LayerFolders), "sandbox.vhdx") \in h.fs )
          => ret.err \notin {"scratchFolder", "createScratch"}

C12_Step ==
    /\ fs \subseteq fs'
    /\ Len(fsLog') >= Len(fsLog)
    /\ \A i \in DOMAIN fsLog : fsLog'[i] = fsLog[i]
    /\ \A i \in DOMAIN fsLog' \ DOMAIN fsLog :
          fsLog'[i][2] \notin fs /\ fsLog'[i][2] \in fs'

\* C12: a non-clone call made after a non-clone call that provisioned the same
\* scratch folder, and left the folder and the disk in place, returns no
\* scratch-folder and no scratch-disk error; a folder
\* or a disk file is created only at a path that did not exist, no path is
\* created twice, and no existing file is removed or replaced.
C12_ScratchProvisioningIdempotent == [](C12_State) /\ [][C12_Step]_vars

C12_Witness ==
    /\ callNo = 2 /\ Succeeded /\ ~opts.IsClone
    /\ ~history[1].opts.IsClone /\ history[1].ret.handle
    /\ history[1].opts.LayerFolders = opts.LayerFolders
    /\ Len(fsLog) = 2
    /\ fsLog[1][1] = "mkdir" /\ fsLog[1][3] = 1
    /\ fsLog[2][1] = "createScratch" /\ fsLog[2][3] = 1

\* C13: every document submitted to the host service has the override
\* fragment's value on each leaf key of the fragment and the built document's
\* value on every other key, and no further key; so an empty fragment leaves
\* the built document as it is, and a fragment of new keys keeps every key the
\* built document sets.
C13_MergedSubmission ==
    \A i \in DOMAIN hcs :
        LET frag == opts.AdditionHCSDocumentJSON.json
            sub == hcs[i].doc
        IN  /\ opts.AdditionHCSDocumentJSON.valid
            /\ DOMAIN sub = DOMAIN doc \cup DOMAIN frag
            /\ \A k \in DOMAIN frag : sub[k] = frag[k]
            /\ \A k \in DOMAIN doc \ DOMAIN frag : sub[k] = doc[k]
            /\ (frag = EmptyMap) => sub = doc
            /\ (DOMAIN frag \cap DOMAIN doc = {}) =>
                  \A k \in DOMAIN doc : k \in DOMAIN sub /\ sub[k] = doc[k]

C13_Witness ==
    /\ Succeeded /\ ~opts.IsClone
    /\ KeyScsiPath(0, 0) \in DOMAIN opts.AdditionHCSDocumentJSON.json
    /\ doc[KeyScsiPath(0, 0)] = <<"scratchDir", "sandbox.vhdx">>
    /\ hcs[1].doc[KeyScsiPath(0, 0)] = <<"other", "disk.vhdx">>

\* C14: a call whose options do not pass verifyOptions creates no folder and no
\* disk, replays no resource, submits nothing and opens no listener; once the
\* handle is constructed it returns the validation error right after the
\* verification step.
C14_ValidationFailsEarly ==
    ~(Len(opts.LayerFolders) > 0 /\ (opts.IsClone => opts.TemplateConfig # <<>>)) =>
        /\ fsLog = <<>>
        /\ replayLog = <<>>
        /\ hcs = <<>>
        /\ listeners = <<>>
        /\ uvm.scsiLocations = EmptyMap
        /\ ret.returned => ret.err \in {"guid", "errBadUVMOpts"}
        /\ (ret.returned /\ uvm.constructed) =>
              ret.err = "errBadUVMOpts" /\ trace = <<"construct", "verify">>
        /\ Len(trace) <= 2

C14_Witness ==
    /\ ret.returned /\ ret.err = "errBadUVMOpts"
    /\ opts.IsClone /\ opts.TemplateConfig = <<>> /\ Len(opts.LayerFolders) = 2
    /\ fs = {}

C17_Closed ==
    uvm.closed => ~uvm.faulted /\ uvm.gcListener = 0 /\ uvm.hcsSystem = 0

C17_CloseStep ==
    (closeCalls' = closeCalls + 1) =>
        /\ uvm'.closed /\ ~uvm'.faulted
        /\ uvm.closed => uvm' = uvm

FinishedClones ==
    {history[i] : i \in {j \in DOMAIN history :
                            history[j].opts.IsClone /\ history[j].ret.handle}}
        \cup (IF Succeeded /\ opts.IsClone THEN {FinishedCall} ELSE {})

C19_State ==
    /\ opts.TemplateConfig = RepeatTemplate
    /\ \A i \in DOMAIN history : history[i].opts.TemplateConfig = RepeatTemplate
    /\ \A h \in FinishedClones :
          /\ [j \in DOMAIN h.replayLog |-> h.replayLog[j].kind] = RepeatTemplate[1].Resources
          /\ \A j \in DOMAIN h.replayLog : h.replayLog[j].ok
          /\ h.hcs[1].doc[KeyRestoreTemplate] = TemplateID
          /\ CLONING_DEFAULT_NETWORK_NAMESPACE_ID \in DOMAIN h.uvm.namespaces
          /\ h.uvm.namespaces[CLONING_DEFAULT_NETWORK_NAMESPACE_ID].nics = EmptyMap

C19_Step ==
    /\ opts'.TemplateConfig = opts.TemplateConfig
    /\ \A i \in DOMAIN history :
          /\ i \in DOMAIN history'
          /\ history'[i].opts = history[i].opts
          /\ history'[i].replayLog = history[i].replayLog
          /\ history'[i].uvm.namespaces = history[i].uvm.namespaces
          /\ history'[i].uvm.scsiLocations = history[i].uvm.scsiLocations
          /\ history'[i] # history[i] =>
                /\ uvm' = uvm
                /\ \A j \in DOMAIN history \ {i} : history'[j] = history[j]

\* C19: no step of a clone call changes the template config's VM id or its
\* resource list; every clone that succeeded, in a sequence of calls sharing
\* the template config, replayed the whole recorded list in order, named the
\* template in its document and holds its own default namespace entry; closing
\* the handle of one call changes no other call's handle, and a later call
\* changes no earlier call's handle.
C19_TemplateImmutable == [](C19_State) /\ [][C19_Step]_vars

C19_Witness ==
    /\ callNo = 2 /\ Succeeded /\ opts.IsClone /\ ~uvm.closed
    /\ history[1].opts.IsClone /\ history[1].ret.handle /\ history[1].uvm.closed
    /\ Len(replayLog) = 2 /\ Len(history[1].replayLog) = 2
    /\ DefaultNamespaceSeeded

Rank(step) ==
    CASE step \in {"construct", "verify", "locate"} -> 1
      [] step = "prepare" -> 2
      [] step \in {"scratchFolder", "provision", "beginClone", "replay", "seedNamespace"} -> 3
      [] step = "merge" -> 4
      [] step = "create" -> 5
      [] step = "listen" -> 6

AmendedRank(step) ==
    CASE step \in {"construct", "verify", "locate"} -> 1
      [] step = "scratchFolder" -> 2
      [] step = "prepare" -> 3
      [] step \in {"provision", "beginClone", "replay", "seedNamespace"} -> 4
      [] step = "merge" -> 5
      [] step = "create" -> 6
      [] step = "listen" -> 7

C22_OneListener ==
    /\ Len(listeners) <= 1
    /\ Cardinality({i \in DOMAIN trace : trace[i] = "listen"}) <= 1
    /\ listeners # <<>> =>
          /\ opts.ExternalGuestConnection \/ opts.IsClone
          /\ Len(hcs) = 1 /\ hcs[1].accepted
          /\ StepsBefore("create", "listen") /\ "listen" \in Range(trace)
          /\ uvm.runtimeID # <<>>
          /\ listeners[1] = [VMID |-> uvm.runtimeID,
                             ServiceID |-> "acef5661-84a1-4e44-856b-6245e69f4620"]
    /\ uvm.gcListener # 0 => (Len(listeners) = 1 /\ uvm.gcListener = 1)
    /\ (~opts.IsClone /\ ~opts.ExternalGuestConnection) =>
          listeners = <<>> /\ uvm.gcListener = 0

C22_Witness ==
    /\ Succeeded /\ ~opts.IsClone /\ opts.ExternalGuestConnection
    /\ Len(listeners) = 1 /\ uvm.gcListener = 1
    /\ listeners[1].VMID = <<"runtime", "generated-guid">>

\* C23 as stated: for a successfully created VM the built document carries the
\* guest-connection marker exactly when no external listener was opened.
C23_OneGuestChannelMode ==
    Succeeded => ((KeyGuestConnection \in DOMAIN doc) <=> (listeners = <<>>))

\* C26 as stated: for a successful non-clone call the handle's slot (0,0) holds
\* the path of the controller-0 slot-0 attachment of the submitted document,
\* and the handle has a mount in exactly the slots the submitted document
\* attaches.
C26_HandleMatchesSubmitted ==
    (Succeeded /\ ~opts.IsClone) =>
        /\ uvm.scsiLocations[<<0, 0>>].HostPath = hcs[1].doc[KeyScsiPath(0, 0)]
        /\ {<<ToString(l[1]), ToString(l[2])>> : l \in DOMAIN uvm.scsiLocations}
              = ScsiAttachments(hcs[1].doc)

\* ---- SetupNetworkNamespace
CallsOf(c) == SelectSeq(vmLog, LAMBDA e : e.caller = c)
AttachFailed(c) ==
    \E i \in DOMAIN vmLog : vmLog[i] = VMCall(c, "AddEndpointsToNS", FALSE)

\* C2: a SetupNetworkNamespace call whose AddNetNS succeeded and whose
\* AddEndpointsToNS failed has, when it returns, issued RemoveNetNS for its
\* namespace id after the failed attach, and returns the AddEndpointsToNS
\* error, whether RemoveNetNS succeeded or failed; no call ever returns the
\* RemoveNetNS error.
C2_RollbackKeepsAttachError ==
    \A c \in Callers :
        /\ sRet[c].err # "RemoveNetNS"
        /\ (sRet[c].returned /\ AttachFailed(c)) =>
              /\ sRet[c].err = "AddEndpointsToNS"
              /\ LET calls == CallsOf(c) IN
                 /\ Len(calls) = 3
                 /\ calls[1].op = "AddNetNS" /\ calls[1].ok
                 /\ calls[2].op = "AddEndpointsToNS" /\ ~calls[2].ok
                 /\ calls[3].op = "RemoveNetNS" /\ calls[3].nsid = NsidOf(c)

C2_Witness ==
    \E c \in Callers :
        /\ sRet[c].returned /\ sRet[c].err = "AddEndpointsToNS"
        /\ \E i \in DOMAIN vmLog : vmLog[i] = VMCall(c, "RemoveNetNS", FALSE)

AllowedTransitions ==
    { <<"Unattached", "NamespaceAttached">>,
      <<"NamespaceAttached", "EndpointsAttached">>,
      <<"NamespaceAttached", "Unattached">> }

C3_Calls ==
    \A c \in Callers :
        LET calls == CallsOf(c) IN
        /\ \A i \in DOMAIN calls :
              /\ calls[i].op = "AddNetNS" => i = 1
              /\ calls[i].op = "AddEndpointsToNS" =>
                    i = 2 /\ calls[1].op = "AddNetNS" /\ calls[1].ok
              /\ calls[i].op = "RemoveNetNS" =>
                    i = 3 /\ calls[2].op = "AddEndpointsToNS" /\ ~calls[2].ok
        /\ sRet[c].returned =>
              (sRet[c].err = NoErr <=> nsState[NsidOf(c)] = "EndpointsAttached")
        /\ ~sRet[c].returned => nsState[NsidOf(c)] # "EndpointsAttached"

C3_Moves ==
    \A n \in Nsids :
        nsState'[n] # nsState[n] =>
            /\ <<nsState[n], nsState'[n]>> \in AllowedTransitions
            /\ nsState'[n] = "Unattached" =>
                  /\ vmLog'[Len(vmLog')].op = "RemoveNetNS"
                  /\ vmLog'[Len(vmLog')].nsid = n

\* C3: a namespace changes state only Unattached -> NamespaceAttached ->
\* EndpointsAttached, or NamespaceAttached -> Unattached by a RemoveNetNS call;
\* AddEndpointsToNS is issued only after the caller's AddNetNS succeeded,
\* RemoveNetNS only after its AddEndpointsToNS failed, EndpointsAttached is
\* never left, and a call returns nil exactly when its namespace is
\* EndpointsAttached.
C3_AttachStateMachine == [](C3_Calls) /\ [][C3_Moves]_vars

C3_Witness ==
    \E c, d \in Callers :
        /\ sRet[c].returned /\ nsState[NsidOf(c)] = "EndpointsAttached"
        /\ sRet[d].returned /\ nsState[NsidOf(d)] = "Unattached"
        /\ \E i \in DOMAIN vmLog : vmLog[i] = VMCall(d, "RemoveNetNS", TRUE)

\* ---- createNetworkNamespace
OkBinds == SelectSeq(bindLog, LAMBDA e : e.ok)

\* C4: the i-th AddNamespaceEndpoint call of a createNetworkNamespace call binds
\* the i-th endpoint of the list into the new namespace, and is made only when
\* every earlier bind succeeded; once a bind has failed the call has returned
\* that error, and the namespace still exists with every earlier endpoint bound
\* to it.
C4_BindStopsAtFirstFailure ==
    /\ \A i \in DOMAIN bindLog :
          /\ bindLog[i].ep = coi.EndpointList[i]
          /\ bindLog[i].ns = netID
          /\ i < Len(bindLog) => bindLog[i].ok
    /\ Len(bindLog) <= Len(coi.EndpointList)
    /\ netID # <<>> =>
          /\ netID \in DOMAIN hnsNamespaces
          /\ hnsNamespaces[netID] = [i \in 1..Len(OkBinds) |-> coi.EndpointList[i]]
    /\ (\E i \in DOMAIN bindLog : ~bindLog[i].ok) =>
          /\ nsRet = [returned |-> TRUE, err |-> "AddNamespaceEndpoint"]
          /\ nsPc = "done"
          /\ Len(hnsNamespaces[netID]) = Len(bindLog) - 1

C4_Witness ==
    /\ Len(bindLog) = 2 /\ bindLog[1].ok /\ ~bindLog[2].ok
    /\ nsRet.returned /\ nsRet.err # NoErr
    /\ hnsNamespaces[netID] = <<coi.EndpointList[1]>>

\* C5: a createNetworkNamespace call that returns nil leaves the record naming
\* the newly allocated namespace with the created flag set, and has appended
\* one entry holding that namespace id and the container's endpoint ids in list
\* order; the record holds one entry per successful call.
C5_RecordOnSuccess ==
    /\ Len(resources.resources) = nsCalls.succeeded
    /\ (nsRet.returned /\ nsRet.err = NoErr) =>
          LET n == Len(resources.resources) IN
          /\ n >= 1
          /\ resources.resources[n] =
                [EndpointIDs |-> coi.EndpointList, Namespace |-> netID]
          /\ resources.netNS = netID
          /\ resources.createdNetNS
          /\ netID \in DOMAIN hnsNamespaces
          /\ \A i \in 1..(n - 1) : resources.resources[i].Namespace # netID

C5_Witness ==
    /\ nsRet.returned /\ nsRet.err = NoErr
    /\ nsCalls.succeeded = 2
    /\ Len(coi.EndpointList) = 2

C18_OwnSteps ==
    \A c \in Callers :
        /\ \A i \in DOMAIN vmLog : vmLog[i].caller = c => vmLog[i].nsid = NsidOf(c)
        /\ ( /\ sRet[c].returned
             /\ sErr[c] \notin {"GetNamespaceEndpoints", "GetHNSEndpointByID"}
             /\ \A i \in DOMAIN vmLog : vmLog[i].caller = c => vmLog[i].ok )
           => /\ sRet[c].err = NoErr
              /\ NsidOf(c) \in DOMAIN vmNamespaces
              /\ vmNamespaces[NsidOf(c)] =
                    [i \in DOMAIN sEndpoints[c] |-> sEndpoints[c][i].Id]
              /\ nsState[NsidOf(c)] = "EndpointsAttached"

C18_Isolation ==
    \A c \in Callers :
        (Len(vmLog') > Len(vmLog) /\ vmLog'[Len(vmLog')].caller = c) =>
            \A d \in Callers \ {c} :
                /\ sRet'[d] = sRet[d]
                /\ nsState'[NsidOf(d)] = nsState[NsidOf(d)]
                /\ (NsidOf(d) \in DOMAIN vmNamespaces') = (NsidOf(d) \in DOMAIN vmNamespaces)
                /\ NsidOf(d) \in DOMAIN vmNamespaces =>
                      vmNamespaces'[NsidOf(d)] = vmNamespaces[NsidOf(d)]

\* C18: every call a SetupNetworkNamespace caller makes on the VM names the
\* caller's own namespace id, and such a call (the rollback RemoveNetNS
\* included) leaves the other caller's namespace entry, attach state and result
\* as they were; under every interleaving a caller whose own steps all
\* succeeded returns nil with its namespace and all its endpoints attached.
C18_RollbackIsolation == [](C18_OwnSteps) /\ [][C18_Isolation]_vars

C18_Witness ==
    \E c, d \in Callers :
        /\ c # d
        /\ sRet[c].returned /\ sRet[c].err = "AddEndpointsToNS"
        /\ sRet[d].returned /\ sRet[d].err = NoErr
        /\ Len(vmNamespaces[NsidOf(d)]) = 2
        /\ NsidOf(c) \notin DOMAIN vmNamespaces
        /\ \E i, j, k \in DOMAIN vmLog :
              /\ i < j /\ j < k
              /\ vmLog[i] = VMCall(d, "AddNetNS", TRUE)
              /\ vmLog[j] = VMCall(c, "RemoveNetNS", TRUE)
              /\ vmLog[k] = VMCall(d, "AddEndpointsToNS", TRUE)

\* ---- addMountsToClone
OkRequests == SelectSeq(modifyLog, LAMBDA e : e.ok)

\* C16: the i-th request of addMountsToClone is an Add of the i-th mount of
\* the list "mapped directories, then mapped pipes", under the mapped-directory
\* path for a directory and the mapped-pipe path for a pipe, and is issued only
\* when every earlier request succeeded; once a request has failed the call
\* has returned an error; the container holds the mounts of the successful
\* requests, in order, and no Remove request is issued.
C16_MountRequests ==
    LET all == mounts.mdsv2 \o mounts.mpsv2
        nd == Len(mounts.mdsv2)
    IN  /\ Len(modifyLog) <= Len(all)
        /\ \A i \in DOMAIN modifyLog :
              /\ modifyLog[i].req.RequestType = "Add"
              /\ modifyLog[i].req.Settings = all[i]
              /\ modifyLog[i].req.ResourcePath =
                    (IF i <= nd THEN "Container/MappedDirectories"
                                ELSE "Container/MappedPipes")
              /\ i < Len(modifyLog) => modifyLog[i].ok
        /\ attached = [i \in 1..Len(OkRequests) |->
                          [ResourcePath |-> modifyLog[i].req.ResourcePath,
                           Settings |-> all[i]]]
        /\ (modifyLog # <<>> /\ ~modifyLog[Len(modifyLog)].ok) =>
              /\ mRet.returned
              /\ mRet.err = (IF Len(modifyLog) <= nd THEN "mappedDirectory"
                                                     ELSE "mappedPipe")
              /\ mPc = "done"
        /\ (mRet.returned /\ mRet.err = NoErr) =>
              Len(OkRequests) = Len(all)
        /\ (mRet.returned /\ mRet.err # NoErr) => ~modifyLog[Len(modifyLog)].ok

C16_Witness ==
    /\ Len(mounts.mdsv2) = 2 /\ Len(mounts.mpsv2) = 2
    /\ mRet.returned /\ mRet.err = "mappedPipe"
    /\ Len(modifyLog) = 4
    /\ Len(attached) = 3
    /\ attached[3].ResourcePath = "Container/MappedPipes"

\* C21: a SetupNetworkNamespace call makes its first call on the VM only after
\* it has fetched the namespace's endpoint ids and resolved every one of them,
\* in the listed order; a call whose fetch or resolve failed has returned that
\* error without any call on the VM, and its namespace is not in the VM; a
\* call that returned nil has the listed endpoints attached, in the listed
\* order.
C21_ResolveBeforeAttach ==
    \A c \in Callers :
        /\ sErr[c] \in {"GetNamespaceEndpoints", "GetHNSEndpointByID"} =>
              /\ sRet[c] = [returned |-> TRUE, err |-> sErr[c]]
              /\ CallsOf(c) = <<>>
              /\ NsidOf(c) \notin DOMAIN vmNamespaces
        /\ Len(sEndpoints[c]) <= Len(sIds[c])
        /\ \A i \in DOMAIN sEndpoints[c] :
              sEndpoints[c][i].Id = hnsEndpoints[NsidOf(c)][i]
        /\ CallsOf(c) # <<>> =>
              /\ sIds[c] = hnsEndpoints[NsidOf(c)]
              /\ Len(sEndpoints[c]) = Len(sIds[c])
        /\ (sRet[c].returned /\ sRet[c].err = NoErr) =>
              vmNamespaces[NsidOf(c)] = hnsEndpoints[NsidOf(c)]

C21_Witness ==
    \E c, d \in Callers :
        /\ sRet[c].returned /\ sRet[c].err = "GetHNSEndpointByID"
        /\ Len(sIds[c]) = 2 /\ Len(sEndpoints[c]) = 1
        /\ CallsOf(c) = <<>>
        /\ sRet[d].returned /\ sRet[d].err = NoErr
        /\ Len(vmNamespaces[NsidOf(d)]) = 2

\* C24 as stated: whenever SetupNetworkNamespace returns an error, the VM's
\* namespace map holds no entry for the call's namespace id.
C24_NeverAttachedAfterError ==
    \A c \in Callers :
        (sRet[c].returned /\ sRet[c].err # NoErr) => NsidOf(c) \notin DOMAIN vmNamespaces

\* C24: a SetupNetworkNamespace call that returned an error leaves its
\* namespace out of the VM's namespace map unless its own RemoveNetNS call
\* failed: after a failed fetch, resolve or AddNetNS the namespace was never
\* attached, after a failed AddEndpointsToNS the RemoveNetNS call was issued,
\* and the namespace is still attached exactly when that call failed.
C24_DetachedUnlessRollbackFailed ==
    \A c \in Callers :
        (sRet[c].returned /\ sRet[c].err # NoErr) =>
            LET calls == CallsOf(c) IN
            /\ NsidOf(c) \in DOMAIN vmNamespaces <=>
                  (Len(calls) = 3 /\ calls[3].op = "RemoveNetNS" /\ ~calls[3].ok)
            /\ sRet[c].err = "AddEndpointsToNS" =>
                  Len(calls) = 3 /\ calls[3].op = "RemoveNetNS"
            /\ sRet[c].err # "AddEndpointsToNS" =>
                  \A i \in DOMAIN calls : ~calls[i].ok
            /\ nsState[NsidOf(c)] # "EndpointsAttached"

C24_Witness ==
    \E c \in Callers :
        /\ sRet[c].returned /\ sRet[c].err = "AddEndpointsToNS"
        /\ \E i \in DOMAIN vmLog : vmLog[i] = VMCall(c, "RemoveNetNS", TRUE)
        /\ NsidOf(c) \notin DOMAIN vmNamespaces
        /\ Len(sEndpoints[c]) = 2

C25_Record ==
    /\ (nsPc = "bind" \/ bindLog # <<>>) =>
          /\ netID # <<>>
          /\ resources.netNS = netID
          /\ resources.createdNetNS
    /\ (nsRet.returned /\ nsRet.err # NoErr) =>
          \A i \in DOMAIN resources.resources : resources.resources[i].Namespace # netID
    /\ ~nsRet.returned =>
          \A i \in DOMAIN resources.resources : resources.resources[i].Namespace # netID

C25_RecordStep ==
    /\ (nsRet'.returned /\ nsRet'.err = "CreateNamespace") => resources' = resources
    /\ Len(bindLog') > Len(bindLog) => resources' = resources
    /\ resources'.resources # resources.resources =>
          /\ nsRet' = [returned |-> TRUE, err |-> NoErr]
          /\ Len(bindLog) = Len(coi.EndpointList)
          /\ \A i \in DOMAIN bindLog : bindLog[i].ok
          /\ resources'.netNS = resources.netNS
          /\ resources.netNS = netID

\* C25: from the allocation of the namespace on, before the first bind, the
\* record names the namespace and has the created flag set, and still does
\* after a bind failure; the resource entry of a call is appended only by the
\* step that returns nil, after every endpoint of the list was bound; a failed
\* allocation and every bind leave the record as it was.
C25_RecordBeforeBind == [](C25_Record) /\ [][C25_RecordStep]_vars

C25_Witness ==
    /\ nsRet.returned /\ nsRet.err = "AddNamespaceEndpoint"
    /\ Len(bindLog) = 2 /\ bindLog[1].ok
    /\ resources.netNS = netID /\ resources.createdNetNS
    /\ resources.resources = <<>>
    /\ nsCalls.started = 1

====
